---------------------------- MODULE Spec2Model ----------------------------
(***************************************************************************)
(* A model of aioarangodb's request construction (request.py), retrying    *)
(* transport (http.py), API dispatch (api.py) and Pregel API group         *)
(* (pregel.py), together with the executors and jobs they are run under.   *)
(*                                                                         *)
(* Python values are records tagged by their type: [bool |-> b],           *)
(* [int |-> n], [str |-> s], [none |-> TRUE].  A dict is a function from   *)
(* its keys to its values.  A string that the code converts (lower(),      *)
(* str(), int(), an f-string) is a sequence of one-character strings; a    *)
(* string the code only passes on is a TLA+ string.                        *)
(***************************************************************************)
EXTENDS Integers, Sequences, FiniteSets, TLC

VARIABLES
    hdrIn,      \* the headers argument of Request(...)
    prmIn,      \* the params argument of Request(...)
    req,        \* the Request constructed from them
    tpc,        \* transport: "idle", "attempting" or "returned"
    attempts,   \* transport: physical attempts made by the current send
    hist,       \* transport: the status of each physical attempt, in order
    tResp,      \* transport: the Response send_request returned
    context,    \* the executor's context: "default", "async" or "batch"
    heap,       \* the dict objects: heap[r] is the content of dict r
    orig,       \* the content each caller-owned dict had when the caller made it
    calls,      \* one record per API call made, in call order
    committed,  \* the batch executor has committed
    wire        \* batch: the order the sub-responses were produced in

vars == <<hdrIn, prmIn, req, tpc, attempts, hist, tResp,
          context, heap, orig, calls, committed, wire>>

reqVars == <<hdrIn, prmIn, req>>
tVars == <<tpc, attempts, hist, tResp>>
apiVars == <<context, heap, orig, calls, committed, wire>>

-----------------------------------------------------------------------------
(* Bounds of the model. *)

MaxHeaders == 2
MaxIntParam == 11
MaxCalls == 2
NumCallerMaps == 1

-----------------------------------------------------------------------------
(* Python values. *)

None == [none |-> TRUE]
Unset == [unset |-> TRUE]
BoolV(b) == [bool |-> b]
IntV(n) == [int |-> n]
StrV(s) == [str |-> s]
Obj(d) == [obj |-> d]

EmptyDict == [k \in {} |-> None]

\* d[k] = v on a dict
Put(d, k, v) == [x \in (DOMAIN d) \cup {k} |-> IF x = k THEN v ELSE d[x]]

-----------------------------------------------------------------------------
(* Strings as the conversions of the code see them. *)

UpperChars == <<"A","B","C","D","E","F","G","H","I","J","K","L","M",
                "N","O","P","Q","R","S","T","U","V","W","X","Y","Z">>
LowerChars == <<"a","b","c","d","e","f","g","h","i","j","k","l","m",
                "n","o","p","q","r","s","t","u","v","w","x","y","z">>
DigitChars == <<"0","1","2","3","4","5","6","7","8","9">>

LowerChar(c) ==
    IF \E i \in DOMAIN UpperChars : UpperChars[i] = c
    THEN LowerChars[CHOOSE i \in DOMAIN UpperChars : UpperChars[i] = c]
    ELSE c

\* str.lower()
Lower(s) == [i \in DOMAIN s |-> LowerChar(s[i])]

RECURSIVE Digits(_)
Digits(n) ==
    IF n < 10 THEN <<DigitChars[n + 1]>>
    ELSE Digits(n \div 10) \o <<DigitChars[(n % 10) + 1]>>

\* str(n) of an int
IntToStr(n) == IF n < 0 THEN <<"-">> \o Digits(0 - n) ELSE Digits(n)

DigitValue(c) == (CHOOSE i \in DOMAIN DigitChars : DigitChars[i] = c) - 1

RECURSIVE ParseDigits(_)
ParseDigits(s) ==
    IF s = <<>> THEN 0
    ELSE 10 * ParseDigits(SubSeq(s, 1, Len(s) - 1)) + DigitValue(s[Len(s)])

\* int(s) of a decimal text
ParseInt(s) ==
    IF s # <<>> /\ s[1] = "-" THEN 0 - ParseDigits(Tail(s)) ELSE ParseDigits(s)

-----------------------------------------------------------------------------
(* request.py *)

DefaultHeaders ==
    (<<"c","h","a","r","s","e","t">> :> "utf-8")
    @@ (<<"c","o","n","t","e","n","t","-","t","y","p","e">> :> "application/json")

NormalizeHeadersDropCase(normalized, key, value) == Put(normalized, key, value)

\* normalized_headers[key.lower()] = value
NormalizeHeadersPut(normalized, key, value) == Put(normalized, Lower(key), value)

RECURSIVE MergeHeaders(_, _)
MergeHeaders(normalized, items) ==
    IF items = <<>> THEN normalized
    ELSE MergeHeaders(NormalizeHeadersPut(normalized, items[1].key, items[1].value),
                      Tail(items))

\* headers is [some |-> FALSE] for None, else the dict's items in its order
normalize_headers(headers) ==
    IF headers.some THEN MergeHeaders(DefaultHeaders, headers.items)
    ELSE DefaultHeaders

ParamStrBoolAsText(value) ==
    IF "bool" \in DOMAIN value
    THEN (IF value.bool THEN <<"T","r","u","e">> ELSE <<"F","a","l","s","e">>)
    ELSE IF "int" \in DOMAIN value THEN IntToStr(value.int)
    ELSE value.str

\* if isinstance(value, bool): value = int(value);  str(value)
ParamStr(value) ==
    IF "bool" \in DOMAIN value THEN IntToStr(IF value.bool THEN 1 ELSE 0)
    ELSE IF "int" \in DOMAIN value THEN IntToStr(value.int)
    ELSE value.str

\* params is [some |-> FALSE] for None, else [some |-> TRUE, dict |-> the dict]
normalize_params(params) ==
    IF params.some
    THEN [k \in DOMAIN params.dict |-> ParamStr(params.dict[k])]
    ELSE EmptyDict

\* Request.__init__: data is kept as given (a reference), headers and params
\* are normalized into new dicts
Request(method, endpoint, headers, params, data) ==
    [method |-> method, endpoint |-> endpoint,
     headers |-> normalize_headers(headers),
     params |-> normalize_params(params),
     data |-> data]

NoReq == [built |-> FALSE]

-----------------------------------------------------------------------------
(* The inputs of Request construction. *)

K_charset == <<"c","h","a","r","s","e","t">>
K_ctype == <<"c","o","n","t","e","n","t","-","t","y","p","e">>

HeaderKeys == { K_charset,
                <<"C","h","a","r","s","e","t">>,
                <<"C","H","A","R","S","E","T">>,
                <<"C","o","n","t","e","n","t","-","T","y","p","e">>,
                <<"X","-","I","d">>,
                <<"x","-","i","d">> }
HeaderValues == {"latin-1", "text/plain"}

\* the items of a dict: no key twice
HeaderItems ==
    { s \in UNION { [1..n -> [key : HeaderKeys, value : HeaderValues]] : n \in 0..MaxHeaders } :
        \A i, j \in DOMAIN s : s[i].key = s[j].key => i = j }

NoHeaders == [some |-> FALSE, items |-> <<>>]
HeaderInputs == {NoHeaders} \cup { [some |-> TRUE, items |-> s] : s \in HeaderItems }

ParamKeys == {"waitForSync", "limit"}
ParamValues ==
    { BoolV(TRUE), BoolV(FALSE) }
    \cup { IntV(n) : n \in (0 - MaxIntParam)..MaxIntParam }
    \cup { StrV(<<>>), StrV(<<"1">>), StrV(<<"T","r","u","e">>), StrV(<<"a","B">>) }

NoParams == [some |-> FALSE, dict |-> EmptyDict]
ParamInputs ==
    {NoParams}
    \cup { [some |-> TRUE, dict |-> d] :
            d \in UNION { [ks -> ParamValues] : ks \in SUBSET ParamKeys } }

ApiIdle ==
    /\ context = "default"
    /\ heap = <<>>
    /\ orig = <<>>
    /\ calls = <<>>
    /\ committed = FALSE
    /\ wire = <<>>

TransportIdle ==
    /\ tpc = "idle"
    /\ attempts = 0
    /\ hist = <<>>
    /\ tResp = None

RequestIdle ==
    /\ hdrIn = NoHeaders
    /\ prmIn = NoParams
    /\ req = NoReq

InitRequest ==
    /\ \/ hdrIn \in HeaderInputs /\ prmIn = NoParams
       \/ hdrIn = NoHeaders /\ prmIn \in ParamInputs
    /\ req = NoReq
    /\ TransportIdle
    /\ ApiIdle

\* Request(method="get", endpoint=..., headers=hdrIn, params=prmIn)
Construct ==
    /\ req = NoReq
    /\ req' = [built |-> TRUE,
               r |-> Request("get", "/_api/version", hdrIn, prmIn, None)]
    /\ UNCHANGED <<hdrIn, prmIn>>
    /\ UNCHANGED tVars
    /\ UNCHANGED apiVars

NextRequest == Construct

SpecRequest == InitRequest /\ [][NextRequest]_vars

-----------------------------------------------------------------------------
(* What the claims about request.py are stated with. *)

SameLetter(a, b) ==
    \/ a = b
    \/ \E i \in DOMAIN UpperChars : {a, b} = {UpperChars[i], LowerChars[i]}

\* two keys that differ in letter case at most
SameKey(a, b) ==
    /\ Len(a) = Len(b)
    /\ \A i \in DOMAIN a : SameLetter(a[i], b[i])

HasNoUpper(k) == \A i \in DOMAIN k : \A j \in DOMAIN UpperChars : k[i] # UpperChars[j]

\* the positions of the caller's items whose key is k in some letter case
Supplied(k) == { i \in DOMAIN hdrIn.items : SameKey(hdrIn.items[i].key, k) }

\* a decimal text: an optional "-", then digits without a leading zero
IsDecimalText(s) ==
    LET d == IF s # <<>> /\ s[1] = "-" THEN Tail(s) ELSE s
    IN  /\ d # <<>>
        /\ \A i \in DOMAIN d : \E j \in DOMAIN DigitChars : d[i] = DigitChars[j]
        /\ (Len(d) > 1 => d[1] # "0")
        /\ (s[1] = "-" => d # <<"0">>)

\* C7: the headers of a constructed Request always hold "charset" and
\* "content-type"; each holds its default ("utf-8", "application/json")
\* unless the caller supplied that key in some letter case, and then a value
\* the caller supplied for it (the last one, in the dict's order); the keys
\* are the two defaults and the caller's keys, every one in lower case, and
\* no two keys differ in letter case only.
C7_HeadersNormalized ==
    req.built =>
        LET h == req.r.headers
            items == hdrIn.items
        IN  /\ {K_charset, K_ctype} \subseteq DOMAIN h
            /\ \A k \in {K_charset, K_ctype} :
                 IF Supplied(k) = {}
                 THEN h[k] = DefaultHeaders[k]
                 ELSE h[k] = items[CHOOSE i \in Supplied(k) :
                                      \A j \in Supplied(k) : j <= i].value
            /\ h[K_charset] = "utf-8" \/ Supplied(K_charset) # {}
            /\ h[K_ctype] = "application/json" \/ Supplied(K_ctype) # {}
            /\ \A i \in DOMAIN items :
                 \E k \in DOMAIN h :
                    /\ SameKey(k, items[i].key)
                    /\ \E j \in Supplied(k) : h[k] = items[j].value
            /\ \A k \in DOMAIN h :
                 /\ HasNoUpper(k)
                 /\ k \in {K_charset, K_ctype} \/ Supplied(k) # {}
            /\ \A k1, k2 \in DOMAIN h : SameKey(k1, k2) => k1 = k2

\* a Request was built from headers that override "charset" in another
\* letter case and carry a key of the caller's own in capitals
C7_Witness ==
    /\ req.built
    /\ hdrIn.some
    /\ \E i, j \in DOMAIN hdrIn.items :
         /\ hdrIn.items[i].key = <<"C","H","A","R","S","E","T">>
         /\ hdrIn.items[i].value = "latin-1"
         /\ hdrIn.items[j].key = <<"X","-","I","d">>
    /\ req.r.headers[K_charset] = "latin-1"
    /\ req.r.headers[K_ctype] = "application/json"
    /\ <<"x","-","i","d">> \in DOMAIN req.r.headers

\* C8: the params of a constructed Request have the keys of the params given
\* (none for None), and every value is a string: "1" for True, "0" for
\* False, the decimal text of an integer (which reads back as that integer),
\* and a string itself.
C8_ParamsStringified ==
    req.built =>
        LET p == req.r.params
        IN  /\ ~prmIn.some => p = EmptyDict
            /\ prmIn.some =>
                 /\ DOMAIN p = DOMAIN prmIn.dict
                 /\ \A k \in DOMAIN p :
                      LET v == prmIn.dict[k]
                      IN  /\ v = BoolV(TRUE) => p[k] = <<"1">>
                          /\ v = BoolV(FALSE) => p[k] = <<"0">>
                          /\ "int" \in DOMAIN v =>
                               /\ IsDecimalText(p[k])
                               /\ ParseInt(p[k]) = v.int
                          /\ "str" \in DOMAIN v => p[k] = v.str

\* a Request was built from params holding True, False, a negative integer
\* of two digits and a string
C8_Witness ==
    /\ req.built
    /\ prmIn.some
    /\ DOMAIN prmIn.dict = ParamKeys
    /\ prmIn.dict["waitForSync"] = BoolV(TRUE)
    /\ prmIn.dict["limit"] = IntV(0 - 10)
    /\ req.r.params["waitForSync"] = <<"1">>
    /\ req.r.params["limit"] = <<"-","1","0">>

-----------------------------------------------------------------------------
(* http.py: DefaultHTTPClient over a RetryClient *)

\* ExponentialRetry(attempts=3, statuses={429, 500, 502, 503, 504})
RetryAttempts == 3
RetryStatuses == {429, 500, 502, 503, 504}

\* the statuses a server answers a physical attempt with
ServerStatuses == {200, 201, 404, 429, 500, 501, 502, 503, 504}

\* Response(method=, url=, status_code=response.status, ...)
Response(method, status, body) ==
    [method |-> method, status_code |-> status, raw_body |-> body]

\* Response.is_success: the 2xx range
is_success(resp) == 200 <= resp.status_code /\ resp.status_code < 300

ReturnsResponseOneMore(status, attempt) ==
    status \notin RetryStatuses \/ attempt >= RetryAttempts + 1

\* RetryClient(raise_for_status=False): the attempt's response is returned
\* when its status is not one to retry on, or when it was the last attempt
ReturnsResponse(status, attempt) ==
    status \notin RetryStatuses \/ attempt >= RetryAttempts

InitTransport ==
    /\ RequestIdle
    /\ TransportIdle
    /\ ApiIdle

\* send_request, up to its await of the session's request
SendRequest ==
    /\ tpc = "idle"
    /\ tpc' = "attempting"
    /\ UNCHANGED <<attempts, hist, tResp>>
    /\ UNCHANGED reqVars
    /\ UNCHANGED apiVars

\* one physical attempt, answered with status; send_request resumes and
\* returns its Response when the retrying session returns
PhysicalAttempt(status) ==
    /\ tpc = "attempting"
    /\ attempts' = attempts + 1
    /\ hist' = Append(hist, status)
    /\ IF ReturnsResponse(status, attempts + 1)
       THEN /\ tpc' = "returned"
            /\ tResp' = Response("get", status, "body")
       ELSE UNCHANGED <<tpc, tResp>>
    /\ UNCHANGED reqVars
    /\ UNCHANGED apiVars

NextTransport ==
    \/ SendRequest
    \/ \E status \in ServerStatuses : PhysicalAttempt(status)

SpecTransport == InitTransport /\ [][NextTransport]_vars

-----------------------------------------------------------------------------
(* The executors and jobs that api.py hands a call to. *)

NoOutcome == [kind |-> "none"]
Value(v) == [kind |-> "value", value |-> v]
\* an ArangoServerError of the named kind, made from (resp, request); the
\* request is named by the position of its call
Raise(error, resp, request) ==
    [kind |-> "raise", error |-> error, response |-> resp, request |-> request]

\* the status a job starts in: the default executor returns no job, its
\* call is in flight until the response arrives
InitialStatus(ctx) ==
    CASE ctx = "default" -> "inflight"
      [] ctx = "async" -> "pending"
      [] ctx = "batch" -> "queued"

\* the status a job ends in when its handler returned (ok) or raised
TerminalStatus(ctx, ok) ==
    CASE ctx = "default" -> IF ok THEN "returned" ELSE "raised"
      [] ctx = "async" -> IF ok THEN "done" ELSE "error"
      [] ctx = "batch" -> IF ok THEN "committed" ELSE "failed"

IsTerminal(st) == st \in {"returned", "raised", "done", "error", "committed", "failed"}

\* executor.execute(request, response_handler): the request and the handler
\* are kept as given, nothing is applied yet
Executor_execute(request, response_handler) ==
    [request |-> request,
     handler |-> response_handler,
     jstatus |-> InitialStatus(context),
     outcome |-> NoOutcome,
     resp |-> None,
     part |-> 0,
     applied |-> 0,
     repolled |-> FALSE]

ApiGroup_execute_OtherHandler(request, response_handler) ==
    Executor_execute(request, "delete_job")

\* ApiGroup._execute
ApiGroup_execute(request, response_handler) ==
    Executor_execute(request, response_handler)

-----------------------------------------------------------------------------
(* pregel.py *)

\* format_pregel_job_data(resp.body)
format_pregel_job_data(body) == [formatted |-> body]

\* f"/_api/control_pregel/{job_id}"
JobEndpoint(job_id) == <<"/_api/control_pregel", "/">> \o IntToStr(job_id)

\* Pregel.job.response_handler
JobHandler(resp, request) ==
    IF is_success(resp) THEN Value(format_pregel_job_data(resp.raw_body))
    ELSE Raise("PregelJobGetError", resp, request)

\* Pregel.create_job.response_handler
CreateJobHandler(resp, request) ==
    IF is_success(resp) THEN Value(IntV(ParseInt(resp.raw_body)))
    ELSE Raise("PregelJobCreateError", resp, request)

DeleteJobHandlerNoCheck(resp, request) == Value(BoolV(TRUE))

\* Pregel.delete_job.response_handler
DeleteJobHandler(resp, request) ==
    IF is_success(resp) THEN Value(BoolV(TRUE))
    ELSE Raise("PregelJobDeleteError", resp, request)

\* the response handler of the call of the named method, applied
ResponseHandler(handler, resp, request) ==
    CASE handler = "job" -> JobHandler(resp, request)
      [] handler = "create_job" -> CreateJobHandler(resp, request)
      [] handler = "delete_job" -> DeleteJobHandler(resp, request)

\* store: bool = True
StoreDefault(store) == IF store = Unset THEN BoolV(TRUE) ELSE store

SetIfGiven(d, k, v) == IF v # None THEN Put(d, k, v) ELSE d

MergeParamsNoStoreDefault(algorithm_params, args) ==
    SetIfGiven(
      SetIfGiven(
        SetIfGiven(
          SetIfGiven(
            SetIfGiven(algorithm_params, "store",
                       IF args.store = Unset THEN None ELSE args.store),
            "maxGSS", args.max_gss),
          "parallelism", args.thread_count),
        "async", args.async_mode),
      "resultField", args.result_field)

\* create_job: the five "if x is not None: algorithm_params[key] = x"
MergeParams(algorithm_params, args) ==
    SetIfGiven(
      SetIfGiven(
        SetIfGiven(
          SetIfGiven(
            SetIfGiven(algorithm_params, "store", StoreDefault(args.store)),
            "maxGSS", args.max_gss),
          "parallelism", args.thread_count),
        "async", args.async_mode),
      "resultField", args.result_field)

Ref(r) == [ref |-> r]

\* the dict create_job merges into: the caller's, or a new one for None
ParamsRef(args) ==
    IF args.algorithm_params = 0 THEN Len(heap) + 1 ELSE args.algorithm_params

\* the body of a request as it is sent: the data with every dict it refers
\* to read from the heap h
Payload(h, data) ==
    IF data = None THEN None
    ELSE Obj([k \in DOMAIN data.dict |->
                IF "ref" \in DOMAIN data.dict[k]
                THEN Obj(h[data.dict[k].ref])
                ELSE data.dict[k]])

\* the record of one call: the job the executor made of it, and what the
\* call was (op, args), the request it built, the body that request had when
\* it was built and the content the caller's dict had at the call
Call(op, args, request, job, h, given) ==
    [op |-> op, args |-> args, built |-> request,
     snap |-> Payload(h, request.data), given |-> given,
     request |-> job.request, handler |-> job.handler,
     jstatus |-> job.jstatus, outcome |-> job.outcome, resp |-> job.resp,
     part |-> job.part, applied |-> job.applied, repolled |-> job.repolled]

CanCall == Len(calls) < MaxCalls /\ ~committed

JobIds == {42}

\* Pregel.job(job_id)
Job(job_id) ==
    /\ CanCall
    /\ LET request == Request("get", JobEndpoint(job_id), NoHeaders, NoParams, None)
       IN  calls' = Append(calls,
                Call("job", [job_id |-> job_id], request,
                     ApiGroup_execute(request, "job"), heap, EmptyDict))
    /\ UNCHANGED <<context, heap, orig, committed, wire>>
    /\ UNCHANGED reqVars
    /\ UNCHANGED tVars

\* Pregel.delete_job(job_id)
DeleteJob(job_id) ==
    /\ CanCall
    /\ LET request == Request("delete", JobEndpoint(job_id), NoHeaders, NoParams, None)
       IN  calls' = Append(calls,
                Call("delete_job", [job_id |-> job_id], request,
                     ApiGroup_execute(request, "delete_job"), heap, EmptyDict))
    /\ UNCHANGED <<context, heap, orig, committed, wire>>
    /\ UNCHANGED reqVars
    /\ UNCHANGED tVars

\* Pregel.create_job(graph, algorithm, store, max_gss, thread_count,
\* async_mode, result_field, algorithm_params)
CreateJob(args) ==
    /\ CanCall
    /\ LET r == ParamsRef(args)
           given == IF args.algorithm_params = 0 THEN EmptyDict ELSE heap[r]
           merged == MergeParams(given, args)
           h2 == IF args.algorithm_params = 0
                 THEN Append(heap, merged)
                 ELSE [heap EXCEPT ![r] = merged]
           data0 == ("algorithm" :> StrV(args.algorithm))
                    @@ ("graphName" :> StrV(args.graph))
           data == IF merged # EmptyDict THEN Put(data0, "params", Ref(r)) ELSE data0
           request == Request("post", <<"/_api/control_pregel">>,
                              NoHeaders, NoParams, [dict |-> data])
       IN  /\ heap' = h2
           /\ calls' = Append(calls,
                Call("create_job", args, request,
                     ApiGroup_execute(request, "create_job"), h2, given))
    /\ UNCHANGED <<context, orig, committed, wire>>
    /\ UNCHANGED reqVars
    /\ UNCHANGED tVars

\* the arguments create_job is called with
OptionSets ==
    { [max_gss |-> None, thread_count |-> None, async_mode |-> None, result_field |-> None],
      [max_gss |-> IntV(5), thread_count |-> None, async_mode |-> None, result_field |-> None],
      [max_gss |-> None, thread_count |-> IntV(2), async_mode |-> BoolV(TRUE),
       result_field |-> StrV("rank")] }

\* store with the other options it is passed with: every option is passed
\* in some call and left out in another, store is also passed as None
StoreAndOptions ==
    { so \in {Unset, None, BoolV(FALSE)} \X OptionSets :
        /\ so[2].thread_count # None => so[1] = Unset
        /\ so[1] = BoolV(FALSE) => so[2].max_gss # None }

CreateArgsWith(so, ap) ==
    [graph |-> "g", algorithm |-> "pagerank", store |-> so[1],
     max_gss |-> so[2].max_gss, thread_count |-> so[2].thread_count,
     async_mode |-> so[2].async_mode, result_field |-> so[2].result_field,
     algorithm_params |-> ap]

CreateArgs == { CreateArgsWith(so, ap) : so \in StoreAndOptions, ap \in 0..NumCallerMaps }

\* the create_job calls made under the async and the batch executor
JobCreateArgs ==
    { a \in CreateArgs : a.algorithm_params = 0 /\ a.store # None /\ a.thread_count = None }

\* the dicts the caller owns and may pass as algorithm_params
CallerMap(r) == IF r % 2 = 1 THEN ("threshold" :> IntV(1)) ELSE EmptyDict

ApiStatuses == {200, 404}
ApiBodies == {<<"4","1">>}

\* given the handler's outcome for resp, the job that has reached its end
Finished(c, resp, out, part) ==
    [c EXCEPT !.jstatus = TerminalStatus(context, out.kind = "value"),
              !.outcome = out,
              !.resp = resp,
              !.part = part,
              !.applied = @ + 1]

\* the default executor: the response of a call in flight arrives, the
\* handler is applied to it and its value returned or its error raised
DefaultRespond(i, status, body) ==
    /\ context = "default"
    /\ i \in DOMAIN calls
    /\ calls[i].jstatus = "inflight"
    /\ LET c == calls[i]
           resp == Response(c.request.method, status, body)
       IN  calls' = [calls EXCEPT ![i] =
                        Finished(c, resp, ResponseHandler(c.handler, resp, i), 0)]
    /\ UNCHANGED <<context, heap, orig, committed, wire>>
    /\ UNCHANGED reqVars
    /\ UNCHANGED tVars

PollAgain(c, resp, request) ==
    Finished(c, resp, ResponseHandler(c.handler, resp, request), 0)

\* poll(job) with the server's answer: a job that reached its end keeps its
\* memoized outcome (repolled notes that it was polled again); a pending one
\* takes the outcome of its handler
PollJob(c, resp, request) ==
    IF IsTerminal(c.jstatus) THEN [c EXCEPT !.repolled = TRUE]
    ELSE Finished(c, resp, ResponseHandler(c.handler, resp, request), 0)

\* the async executor's poll, the server reporting the job finished
Poll(i, status, body) ==
    /\ context = "async"
    /\ i \in DOMAIN calls
    /\ LET c == calls[i]
       IN  calls' = [calls EXCEPT ![i] =
                        PollJob(c, Response(c.request.method, status, body), i)]
    /\ UNCHANGED <<context, heap, orig, committed, wire>>
    /\ UNCHANGED reqVars
    /\ UNCHANGED tVars

\* the async executor's poll, the server reporting the job still running
PollPending(i) ==
    /\ context = "async"
    /\ i \in DOMAIN calls
    /\ UNCHANGED vars

Perms(n) == { f \in [1..n -> 1..n] : \A a, b \in 1..n : f[a] = f[b] => a = b }

DemuxByArrival(reply, arrival, i) == reply[arrival[i]]

\* the sub-response of job i: the i-th of the bundled reply
Demux(reply, arrival, i) == reply[i]

\* the batch executor's commit: the server answers part p of the bundle with
\* reply[p], producing the answers in the order arrival; each queued job's
\* handler is applied to its sub-response
Commit(reply, arrival) ==
    /\ context = "batch"
    /\ ~committed
    /\ committed' = TRUE
    /\ wire' = arrival
    /\ calls' = [i \in DOMAIN calls |->
                    LET c == calls[i]
                        sub == Demux(reply, arrival, i)
                        resp == Response(calls[sub.part].request.method,
                                         sub.status, sub.body)
                    IN  Finished(c, resp, ResponseHandler(c.handler, resp, i), sub.part)]
    /\ UNCHANGED <<context, heap, orig>>
    /\ UNCHANGED reqVars
    /\ UNCHANGED tVars

\* the replies the server may give to a bundle of n parts
Replies(n) ==
    { r \in [1..n -> [part : 1..n, status : ApiStatuses, body : ApiBodies]] :
        \A p \in 1..n : r[p].part = p }

InitApi(contexts) ==
    /\ RequestIdle
    /\ TransportIdle
    /\ context \in contexts
    /\ heap = [r \in 1..NumCallerMaps |-> CallerMap(r)]
    /\ orig = heap
    /\ calls = <<>>
    /\ committed = FALSE
    /\ wire = <<>>

\* the Pregel API under the default executor
Init == InitApi({"default"})

Next ==
    \/ \E job_id \in JobIds : Job(job_id)
    \/ \E job_id \in JobIds : DeleteJob(job_id)
    \/ \E args \in CreateArgs : CreateJob(args)
    \/ \E i \in 1..MaxCalls, status \in ApiStatuses, body \in ApiBodies :
          DefaultRespond(i, status, body)

Spec == Init /\ [][Next]_vars

\* the Pregel API under the async and the batch executor
InitJobs == InitApi({"async", "batch"})

NextJobs ==
    \/ \E job_id \in JobIds : Job(job_id)
    \/ \E job_id \in JobIds : DeleteJob(job_id)
    \/ \E args \in JobCreateArgs : CreateJob(args)
    \/ \E i \in 1..MaxCalls, status \in ApiStatuses, body \in ApiBodies :
          Poll(i, status, body)
    \/ \E i \in 1..MaxCalls : PollPending(i)
    \/ \E reply \in Replies(Len(calls)), arrival \in Perms(Len(calls)) :
          Commit(reply, arrival)

SpecJobs == InitJobs /\ [][NextJobs]_vars

-----------------------------------------------------------------------------
(* What the claims about the API calls are stated with. *)

OptionNames == {"store", "maxGSS", "parallelism", "async", "resultField"}

\* the value create_job works with for the optional argument behind key k
OptionValue(args, k) ==
    CASE k = "store" -> (IF args.store = Unset THEN BoolV(TRUE) ELSE args.store)
      [] k = "maxGSS" -> args.max_gss
      [] k = "parallelism" -> args.thread_count
      [] k = "async" -> args.async_mode
      [] k = "resultField" -> args.result_field

\* the optional arguments the caller passed with a value
SuppliedOptions(args) ==
    {k \in OptionNames \ {"store"} : OptionValue(args, k) # None}
    \cup (IF args.store \in {Unset, None} THEN {} ELSE {"store"})

\* the optional arguments create_job has a value for
EffectiveOptions(args) == {k \in OptionNames : OptionValue(args, k) # None}

ExampleArgs ==
    [graph |-> "g", algorithm |-> "pagerank", store |-> BoolV(FALSE),
     max_gss |-> IntV(5), thread_count |-> None, async_mode |-> None,
     result_field |-> None, algorithm_params |-> 0]

ExampleBody ==
    Obj(("algorithm" :> StrV("pagerank"))
        @@ ("graphName" :> StrV("g"))
        @@ ("params" :> Obj(("store" :> BoolV(FALSE)) @@ ("maxGSS" :> IntV(5)))))

\* the value each method's handler makes of a 2xx response
ExpectedValue(op, resp) ==
    CASE op = "job" -> [formatted |-> resp.raw_body]
      [] op = "create_job" ->
            (IF resp.raw_body = <<"4","1">> THEN IntV(41) ELSE IntV(ParseInt(resp.raw_body)))
      [] op = "delete_job" -> BoolV(TRUE)

ErrorKind(op) ==
    CASE op = "job" -> "PregelJobGetError"
      [] op = "create_job" -> "PregelJobCreateError"
      [] op = "delete_job" -> "PregelJobDeleteError"

\* C1: in the default context the executor holds the request and the handler
\* the call built, applies the handler at most once, and a call answered
\* with a 2xx response has returned exactly the value its own handler makes
\* of that response.
C1_DefaultReturnsHandlerValue ==
    context = "default" =>
        \A i \in DOMAIN calls :
            LET c == calls[i]
            IN  /\ c.request = c.built
                /\ c.handler = c.op
                /\ c.applied <= 1
                /\ c.jstatus # "inflight" =>
                     /\ c.applied = 1
                     /\ c.outcome = ResponseHandler(c.op, c.resp, i)
                /\ (c.jstatus # "inflight" /\ is_success(c.resp)) =>
                     /\ c.jstatus = "returned"
                     /\ c.outcome = Value(ExpectedValue(c.op, c.resp))

\* job(42) and create_job were both answered 200 in the default context
C1_Witness ==
    /\ context = "default"
    /\ \E i, j \in DOMAIN calls :
         /\ calls[i].op = "job"
         /\ calls[i].jstatus = "returned"
         /\ calls[i].outcome = Value([formatted |-> <<"4","1">>])
         /\ calls[j].op = "create_job"
         /\ calls[j].jstatus = "returned"
         /\ calls[j].outcome = Value(IntV(41))

\* C2: a handler applied to a response that is not 2xx has raised its own
\* method's error kind with the response it was applied to and the request
\* its call built, and has yielded no value; job(42) answered 404 raises
\* PregelJobGetError with a "get" request to /_api/control_pregel/42.
C2_NonSuccessRaises ==
    \A i \in DOMAIN calls :
        LET c == calls[i]
        IN  (c.applied > 0 /\ ~is_success(c.resp)) =>
                /\ c.outcome.kind = "raise"
                /\ c.outcome.error = ErrorKind(c.op)
                /\ c.outcome.response = c.resp
                /\ c.outcome.request = i
                /\ c.request = c.built
                /\ (c.op = "job" /\ c.args.job_id = 42 /\ c.resp.status_code = 404) =>
                     /\ c.request.method = "get"
                     /\ c.request.endpoint = <<"/_api/control_pregel", "/", "4", "2">>

\* job(42), and a delete_job, were answered 404 and each raised its error
C2_Witness ==
    \E i, j \in DOMAIN calls :
        /\ calls[i].op = "job"
        /\ calls[i].args.job_id = 42
        /\ calls[i].resp # None
        /\ calls[i].resp.status_code = 404
        /\ calls[i].outcome.kind = "raise"
        /\ calls[i].outcome.error = "PregelJobGetError"
        /\ calls[j].op = "delete_job"
        /\ calls[j].outcome.kind = "raise"
        /\ calls[j].outcome.error = "PregelJobDeleteError"

\* C3 as claimed: the body of every create_job request holds "algorithm",
\* "graphName" and a "params" object whose keys are exactly the optional
\* arguments the caller supplied.
C3_ParamsExactlySupplied ==
    \A i \in DOMAIN calls :
        LET c == calls[i]
        IN  c.op = "create_job" =>
                /\ c.built.method = "post"
                /\ c.built.endpoint = <<"/_api/control_pregel">>
                /\ DOMAIN c.snap.obj = {"algorithm", "graphName", "params"}
                /\ DOMAIN c.snap.obj["params"].obj = SuppliedOptions(c.args)

\* C3 as amended: the body of a create_job request, when it is built, holds
\* "algorithm" and "graphName" as given and, when that is not empty, a
\* "params" object: the entries the algorithm_params dict has at the call,
\* overridden by a key for exactly the optional arguments whose value is not
\* None, store counting as True when it is not passed.  The example call
\* builds exactly the example body.
C3_BodyOfCreateJob ==
    \A i \in DOMAIN calls :
        LET c == calls[i]
            opts == EffectiveOptions(c.args)
            expected == [k \in (DOMAIN c.given) \cup opts |->
                            IF k \in opts THEN OptionValue(c.args, k) ELSE c.given[k]]
        IN  c.op = "create_job" =>
                /\ c.built.method = "post"
                /\ c.built.endpoint = <<"/_api/control_pregel">>
                /\ {"algorithm", "graphName"} \subseteq DOMAIN c.snap.obj
                /\ DOMAIN c.snap.obj \subseteq {"algorithm", "graphName", "params"}
                /\ c.snap.obj["algorithm"] = StrV(c.args.algorithm)
                /\ c.snap.obj["graphName"] = StrV(c.args.graph)
                /\ ("params" \in DOMAIN c.snap.obj) <=> (expected # EmptyDict)
                /\ ("params" \in DOMAIN c.snap.obj) => c.snap.obj["params"] = Obj(expected)
                /\ c.args = ExampleArgs => c.snap = ExampleBody

\* the example call was made, and so was a call that passes neither store
\* nor any other option
C3_Witness ==
    \E i, j \in DOMAIN calls :
        /\ calls[i].op = "create_job"
        /\ calls[i].args = ExampleArgs
        /\ calls[i].snap = ExampleBody
        /\ calls[j].op = "create_job"
        /\ calls[j].args.store = Unset
        /\ calls[j].args.max_gss = None
        /\ calls[j].args.algorithm_params = 0
        /\ calls[j].snap.obj["params"] = Obj("store" :> BoolV(TRUE))

JobStatusesKept ==
    context \in {"async", "batch"} =>
        \A i \in DOMAIN calls :
            /\ i \in DOMAIN calls'
            /\ IsTerminal(calls[i].jstatus) => calls'[i].jstatus = calls[i].jstatus
            /\ calls'[i].jstatus \in {"pending", "queued"} =>
                  calls'[i].jstatus = calls[i].jstatus

\* C6: in every step, a job of the async or batch executor that is done,
\* committed, error or failed keeps its status, and no job becomes pending
\* or queued.
C6_StatusMonotonic ==
    [][JobStatusesKept]_vars

\* an async job that was done was polled again, and another ended in error
C6_Witness ==
    /\ context = "async"
    /\ \E i, j \in DOMAIN calls :
         /\ calls[i].jstatus = "done"
         /\ calls[i].repolled
         /\ calls[i].applied = 1
         /\ calls[j].jstatus = "error"
         /\ calls[j].repolled

\* C9 as claimed: every dict the caller owns holds the entries it was made
\* with, and the params of a create_job body hold no key beyond those
\* entries and the optional arguments of that call.
C9_CallerMappingUntouched ==
    /\ \A r \in DOMAIN orig : heap[r] = orig[r]
    /\ \A i \in DOMAIN calls :
         LET c == calls[i]
         IN  (c.op = "create_job" /\ "params" \in DOMAIN c.snap.obj) =>
                DOMAIN c.snap.obj["params"].obj \subseteq
                    EffectiveOptions(c.args)
                    \cup (IF c.args.algorithm_params = 0 THEN {}
                          ELSE DOMAIN orig[c.args.algorithm_params])

\* C10 as claimed: every request has the method, endpoint, headers, params
\* and body it was built with.
C10_RequestImmutable ==
    \A i \in DOMAIN calls :
        LET c == calls[i]
        IN  /\ c.request = c.built
            /\ Payload(heap, c.request.data) = c.snap

=============================================================================
